---- MODULE Spec2Model ----
(***************************************************************************)
(* Citation-penalty escalation engine of the Interpolice API:              *)
(* calculatePenalty and createCitationDB of                                *)
(* src/modules/citations/citations.model.js, with the storage calls they   *)
(* make on the citizens, citations and criminal_records tables, and the    *)
(* routes, middlewares and handlers that serve them over HTTP.             *)
(***************************************************************************)
EXTENDS Integers, Sequences, FiniteSets, TLC

\* ---------------------------------------------------------------- bounds
\* Inputs tried on calculatePenalty are -MaxNegative..MaxPrior.
MaxNegative == 6
MaxPrior == 14

\* Concurrent createCitationDB invocations (requests in flight).
NProcs == 2
\* Calls of createCitationDB started in one behaviour, when requests are
\* served one at a time and when they overlap.
MaxCalls == 5
MaxOverlapCalls == 3
\* Storage calls that throw in one behaviour.
MaxFailures == 2
\* Administrative operations (citation update or delete, citizen delete) in
\* one behaviour, and the filings made around them.
MaxAdminOps == 2
MaxAdminCalls == 1
\* Overlapping filings made on a database that already holds citations.
MaxPairCalls == 2
\* Filings followed to their end under fair scheduling.
MaxLiveCalls == 2
\* Administrative deletes made while requests are served over HTTP.
MaxHttpAdminOps == 1
\* Requests that reach createCitationDB, and storage calls that throw, in
\* one behaviour of the HTTP layer.
MaxHttpCalls == 1
MaxHttpFailures == 1

\* ------------------------------------------------------ calculatePenalty
VARIABLES calcArg, calcRes, calcOutcome, prevArg, prevRes, prevOutcome,
          remembered

calcVars == <<calcArg, calcRes, calcOutcome, prevArg, prevRes, prevOutcome,
              remembered>>

\* The switch of calculatePenalty: the description of the matched tier.
\* A template literal is the tuple of its pieces (accents are dropped).
PenaltyDescription(citationNumber, jail_days) ==
  CASE citationNumber = 1 ->
         <<"Primera amonestacion: $400 + curso de 48 horas de normas civicas">>
    [] citationNumber = 2 ->
         <<"Segunda amonestacion: $400 + curso de 48 horas + 2 dias de trabajo civico">>
    [] citationNumber = 3 ->
         <<"Tercera amonestacion: 8 dias de carcel + registro en antecedentes penales">>
    [] OTHER ->
         <<"Multiples amonestaciones (", citationNumber, "): ", jail_days,
           " dias de carcel + registro en antecedentes penales">>

\* The base object without the civic course.
BasePenaltyNoCourse(citationNumber) ==
  [citation_number         |-> citationNumber,
   fine_amount             |-> 400,
   civic_course_hours      |-> 0,
   civic_work_days         |-> 0,
   jail_days               |-> 0,
   creates_criminal_record |-> FALSE,
   penalty_description     |-> <<>>]

\* The object penalty as initialised before the switch.
BasePenalty(citationNumber) ==
  [citation_number         |-> citationNumber,
   fine_amount             |-> 400,
   civic_course_hours      |-> 48,
   civic_work_days         |-> 0,
   jail_days               |-> 0,
   creates_criminal_record |-> FALSE,
   penalty_description     |-> <<>>]

\* The escalation with a step of 4 days.
DefaultJailDaysStep4(citationNumber) == 15 + (citationNumber - 3) * 4

\* The escalation without its base of 15 days.
DefaultJailDaysNoBase(citationNumber) == (citationNumber - 3) * 5

\* Jail days of the default branch of the switch.
DefaultJailDays(citationNumber) == 15 + (citationNumber - 3) * 5

\* calculatePenalty(previousCitations): the base object, changed by the
\* branch of the switch that matches citationNumber.
calculatePenalty(previousCitations) ==
  LET citationNumber == previousCitations + 1
      base == BasePenalty(citationNumber)
  IN CASE citationNumber = 1 ->
            [base EXCEPT !.penalty_description = PenaltyDescription(1, 0)]
       [] citationNumber = 2 ->
            [base EXCEPT !.civic_work_days = 2,
                         !.penalty_description = PenaltyDescription(2, 0)]
       [] citationNumber = 3 ->
            [base EXCEPT !.civic_course_hours = 0,
                         !.civic_work_days = 0,
                         !.jail_days = 8,
                         !.creates_criminal_record = TRUE,
                         !.penalty_description = PenaltyDescription(3, 8)]
       [] OTHER ->
            [base EXCEPT !.fine_amount = 0,
                         !.civic_course_hours = 0,
                         !.jail_days = DefaultJailDays(citationNumber),
                         !.creates_criminal_record = TRUE,
                         !.penalty_description =
                            PenaltyDescription(citationNumber,
                                               DefaultJailDays(citationNumber))]

NoPenalty == calculatePenalty(0)

\* No call has been set aside yet.
NothingRemembered == [valid |-> FALSE, arg |-> 0, res |-> NoPenalty]

InitCalc ==
  /\ calcArg = 0
  /\ calcRes = NoPenalty
  /\ calcOutcome = "none"
  /\ prevArg = 0
  /\ prevRes = NoPenalty
  /\ prevOutcome = "none"
  /\ remembered = NothingRemembered

\* The object penalty hoisted to module scope: every call assigns into the
\* object the call before it returned (and its caller may have changed).
InvokeCalculatePenaltyShared(n) ==
  /\ prevArg' = calcArg
  /\ prevRes' = calcRes
  /\ prevOutcome' = calcOutcome
  /\ calcArg' = n
  /\ calcRes' =
       LET citationNumber == n + 1
           shared == [calcRes EXCEPT !.citation_number = citationNumber]
       IN CASE citationNumber = 1 ->
                 [shared EXCEPT !.penalty_description = PenaltyDescription(1, 0)]
            [] citationNumber = 2 ->
                 [shared EXCEPT !.civic_work_days = 2,
                                !.penalty_description = PenaltyDescription(2, 0)]
            [] citationNumber = 3 ->
                 [shared EXCEPT !.civic_course_hours = 0,
                                !.civic_work_days = 0,
                                !.jail_days = 8,
                                !.creates_criminal_record = TRUE,
                                !.penalty_description = PenaltyDescription(3, 8)]
            [] OTHER ->
                 [shared EXCEPT !.fine_amount = 0,
                                !.civic_course_hours = 0,
                                !.jail_days = DefaultJailDays(citationNumber),
                                !.creates_criminal_record = TRUE,
                                !.penalty_description =
                                   PenaltyDescription(citationNumber,
                                                      DefaultJailDays(citationNumber))]
  /\ calcOutcome' = "returned"
  /\ remembered' \in {remembered,
                       [valid |-> TRUE, arg |-> calcArg', res |-> calcRes']}

\* One call of the exported function; the call before it is remembered, and
\* any call may be set aside to compare later ones with.
\* The function has no throw statement: every call returns. The object it
\* returns is built by the literal of lines 159-167 in that call.
InvokeCalculatePenalty(n) ==
  /\ prevArg' = calcArg
  /\ prevRes' = calcRes
  /\ prevOutcome' = calcOutcome
  /\ calcArg' = n
  /\ calcRes' = calculatePenalty(n)
  /\ calcOutcome' = "returned"
  /\ remembered' \in {remembered,
                       [valid |-> TRUE, arg |-> calcArg', res |-> calcRes']}

\* The caller changes the object it received (it owns it from the return on).
MutateOutcome ==
  /\ calcOutcome = "returned"
  /\ calcRes' = [calcRes EXCEPT !.jail_days = 99,
                                !.creates_criminal_record = ~@]
  /\ calcOutcome' = "mutated"
  /\ UNCHANGED <<calcArg, prevArg, prevRes, prevOutcome, remembered>>

NextCalc ==
  \/ \E n \in (-MaxNegative)..MaxPrior : InvokeCalculatePenalty(n)
  \/ MutateOutcome

\* ------------------------------------------------------------- storage
VARIABLES citizens, citations, criminal_records, nextCitationId, nextRecordId

dbVars == <<citizens, citations, criminal_records, nextCitationId, nextRecordId>>

\* Rows of the citizens table at start, and the ids callers may send.
InitialCitizens == {1, 2}
CitizenIds == {1, 2, 3}

\* A field the caller did not send.
Undefined == -1
UndefinedDate == "undefined"

\* Request bodies (req.body): the description, and what else a caller may
\* put in it.
RequestBodies ==
  {[description |-> "loud music after hours",
    fine_amount |-> Undefined, date |-> UndefinedDate],
   [description |-> "jaywalking",
    fine_amount |-> 999, date |-> "2020-01-01"]}

\* new Date() and its date / time parts: the server's clock, never an input.
Now == "NOW"

\* ----------------------------------------------------- createCitationDB
VARIABLES pc, citationData, previousCitations, penalty, tx, held,
          thrown, result, calls, failures, acquired, released,
          citationsAtCall, recordsAtCall

procVars == <<pc, citationData, previousCitations, penalty, tx, held,
              thrown, result, calls, failures, acquired, released,
              citationsAtCall, recordsAtCall>>

\* What the invocations and the administrators have done so far:
\* attempts[i] counts the inserts invocation i has issued, lastOrdinal[c] is
\* the highest ordinal a committed filing of citizen c was given, lastFail
\* is the last filing that failed inside its transaction with no change to
\* that citizen's citations since, adminOps counts administrative operations.
VARIABLES attempts, lastOrdinal, lastFail, adminOps

histVars == <<attempts, lastOrdinal, lastFail, adminOps>>

\* The HTTP layer in front of the model: hpc is the middleware or handler
\* line the request in service has reached, req the request object, handler
\* and summary the locals of createCitation and of getCitizenPenaltySummaryDB,
\* response what res.status(..).json(..) was given.
VARIABLES hpc, req, handler, summary, response

httpVars == <<hpc, req, handler, summary, response>>

vars == <<calcVars, dbVars, procVars, histVars, httpVars>>

Procs == 1..NProcs

NoData == [citizen_id |-> 0, description |-> "",
           fine_amount |-> Undefined, date |-> UndefinedDate]
NoAttempts == [citation |-> 0, record |-> 0]
NoAdminOps == [deleted |-> 0, updated |-> 0, citizens |-> 0]
NoFail == [valid |-> FALSE, data |-> NoData, ordinal |-> 0, decision |-> FALSE]
NoTx == [open |-> FALSE, citations |-> {}, criminal_records |-> {}]
NoResult == [insertId |-> 0, penalty |-> NoPenalty,
             criminal_record_created |-> FALSE]

NotFoundError == "El ciudadano especificado no existe"
StorageError == "storage error"
RollbackError == "rollback error"
NoError == "none"

\* SELECT id FROM citizens WHERE id = ? ; rows.length > 0
checkCitizenExistsDB(citizenId) == citizenId \in citizens

\* A count without its WHERE clause.
countCitationsOfEveryone(citizenId) == Cardinality(citations)

\* SELECT COUNT(*) FROM citations WHERE citizen_id = ? on committed rows.
countCitationsByCitizenDB(citizenId) ==
  Cardinality({r \in citations : r.citizen_id = citizenId})

\* The same count on the criminal_records table.
countRecordsByCitizen(citizenId) ==
  Cardinality({r \in criminal_records : r.citizen_id = citizenId})

\* The request body inserted as it came, with the computed fine as default.
newCitationFromBody(i, id) ==
  [id          |-> id,
   citizen_id  |-> citationData[i].citizen_id,
   date        |-> IF citationData[i].date = UndefinedDate
                     THEN Now ELSE citationData[i].date,
   description |-> citationData[i].description,
   fine_amount |-> IF citationData[i].fine_amount = Undefined
                     THEN penalty[i].fine_amount
                     ELSE citationData[i].fine_amount]

\* The object newCitation of lines 221-226, keyed by the insert.
newCitation(i, id) ==
  [id          |-> id,
   citizen_id  |-> citationData[i].citizen_id,
   date        |-> Now,
   description |-> citationData[i].description,
   fine_amount |-> penalty[i].fine_amount]

AutoCrimeType == "Acumulación de citaciones menores"

\* A record whose description counts the prior citations only.
criminalRecordPriorCount(i, id) ==
  [id          |-> id,
   citizen_id  |-> citationData[i].citizen_id,
   date        |-> Now,
   time        |-> Now,
   location    |-> 1,
   description |-> <<"Registro automatico por acumulacion de ",
                     previousCitations[i],
                     " citaciones menores. Ultima infraccion: ",
                     citationData[i].description>>,
   crime_type  |-> AutoCrimeType]

\* The object criminalRecord of lines 238-245, keyed by the insert.
criminalRecord(i, id) ==
  [id          |-> id,
   citizen_id  |-> citationData[i].citizen_id,
   date        |-> Now,
   time        |-> Now,
   location    |-> 1,
   description |-> <<"Registro automatico por acumulacion de ",
                     penalty[i].citation_number,
                     " citaciones menores. Ultima infraccion: ",
                     citationData[i].description>>,
   crime_type  |-> AutoCrimeType]

\* ------------------------------------------------------ the HTTP layer
\* null of JavaScript, and a field no one has set.
Null == "null"

\* Roles a token may carry, and a payload without role.
Roles == {"Admin", "Commander", "General", "CourtClerk", "PoliceOfficer"}
NoRole == "undefined"

\* The Authorization header: absent, a token jwt.verify rejects (whatever
\* role it claims), or a token it accepts with the role of its payload.
MissingToken == [present |-> FALSE, valid |-> FALSE, role |-> NoRole]
Tokens ==
  {MissingToken}
    \cup [present : {TRUE}, valid : {FALSE}, role : {"Admin"}]
    \cup [present : {TRUE}, valid : {TRUE}, role : Roles \cup {NoRole}]

\* The two routes of /api/citizens/:citizenId/citations that are followed.
CreateRoute == "POST /"
SummaryRoute == "GET /penalty-summary"

\* An authorization that lets every role of the system through.
AllowedRolesAnyRole(route) == Roles

\* The roles each route hands to authorizeRole.
AllowedRoles(route) ==
  IF route = CreateRoute THEN {"Admin", "PoliceOfficer"} ELSE Roles

\* The :citizenId of the URL.
UrlCitizenIds == CitizenIds \cup {0}

\* Bodies a client may post: those of RequestBodies, one too short for the
\* validation and one that the sanitization rewrites.
NoBody == [description |-> "", fine_amount |-> Undefined, date |-> UndefinedDate]
HttpBodies ==
  RequestBodies
    \cup {[description |-> "noise",
           fine_amount |-> Undefined, date |-> UndefinedDate],
          [description |-> " <jaywalking> ",
           fine_amount |-> 999, date |-> "2020-01-01"]}

\* value.trim().replace(/[<>]/g, '').substring(0, 1000) on the descriptions
\* of HttpBodies.
SanitizedDescription(d) ==
  IF d = " <jaywalking> " THEN "jaywalking" ELSE d

\* The length of a description of HttpBodies, once sanitized.
DescriptionLength(d) ==
  CASE d = "" -> 0
    [] d = "noise" -> 5
    [] d = "jaywalking" -> 10
    [] d = "loud music after hours" -> 22
    [] d = " <jaywalking> " -> 14

NoUser == [role |-> NoRole]
NoRequest == [route |-> "none", token |-> MissingToken, citizenId |-> 0,
              body |-> NoBody, user |-> NoUser, errors |-> {}]
NoHandler == [previousCitations |-> 0, penalty |-> NoPenalty]
NoSummary == [total_citations |-> 0, total_fines |-> 0,
              next_penalty |-> NoPenalty]
NoResponse == [status |-> 0, by |-> "none", body |-> [status |-> "none"]]

InitHttp ==
  /\ hpc = "idle"
  /\ req = NoRequest
  /\ handler = NoHandler
  /\ summary = NoSummary
  /\ response = NoResponse

Init ==
  /\ InitCalc
  /\ InitHttp
  /\ citizens = InitialCitizens
  /\ citations = {}
  /\ criminal_records = {}
  /\ nextCitationId = 1
  /\ nextRecordId = 1
  /\ pc = [i \in Procs |-> "idle"]
  /\ citationData = [i \in Procs |-> NoData]
  /\ previousCitations = [i \in Procs |-> 0]
  /\ penalty = [i \in Procs |-> NoPenalty]
  /\ tx = [i \in Procs |-> NoTx]
  /\ held = [i \in Procs |-> FALSE]
  /\ thrown = [i \in Procs |-> NoError]
  /\ result = [i \in Procs |-> NoResult]
  /\ calls = 0
  /\ failures = 0
  /\ acquired = [i \in Procs |-> 0]
  /\ released = [i \in Procs |-> 0]
  /\ citationsAtCall = [i \in Procs |-> {}]
  /\ recordsAtCall = [i \in Procs |-> {}]
  /\ attempts = [i \in Procs |-> NoAttempts]
  /\ lastOrdinal = [c \in CitizenIds |-> 0]
  /\ lastFail = NoFail
  /\ adminOps = NoAdminOps

\* A database in use: citizen 1 has been filed two citations, one after the
\* other (ordinals 1 and 2, no criminal record yet); nothing is in flight.
LoadedCitations ==
  {[id |-> 1, citizen_id |-> 1, date |-> Now,
    description |-> "loud music after hours", fine_amount |-> 400],
   [id |-> 2, citizen_id |-> 1, date |-> Now,
    description |-> "jaywalking", fine_amount |-> 400]}

InitLoaded ==
  /\ InitCalc
  /\ InitHttp
  /\ citizens = InitialCitizens
  /\ citations = LoadedCitations
  /\ criminal_records = {}
  /\ nextCitationId = 3
  /\ nextRecordId = 1
  /\ pc = [i \in Procs |-> "idle"]
  /\ citationData = [i \in Procs |-> NoData]
  /\ previousCitations = [i \in Procs |-> 0]
  /\ penalty = [i \in Procs |-> NoPenalty]
  /\ tx = [i \in Procs |-> NoTx]
  /\ held = [i \in Procs |-> FALSE]
  /\ thrown = [i \in Procs |-> NoError]
  /\ result = [i \in Procs |-> NoResult]
  /\ calls = 0
  /\ failures = 0
  /\ acquired = [i \in Procs |-> 0]
  /\ released = [i \in Procs |-> 0]
  /\ citationsAtCall = [i \in Procs |-> {}]
  /\ recordsAtCall = [i \in Procs |-> {}]
  /\ attempts = [i \in Procs |-> NoAttempts]
  /\ lastOrdinal = [c \in CitizenIds |-> IF c = 1 THEN 2 ELSE 0]
  /\ lastFail = NoFail
  /\ adminOps = NoAdminOps

\* A storage call may throw, while the budget of failures lasts.
MayFail == failures < MaxFailures

\* A caller invokes createCitationDB(citationData). Invocations are
\* interchangeable: a new one takes the first free slot.
Call(i, c, b) ==
  /\ pc[i] = "idle"
  /\ \A j \in Procs : j < i => pc[j] # "idle"
  /\ calls' = calls + 1
  /\ pc' = [pc EXCEPT ![i] = "check"]
  /\ citationData' = [citationData EXCEPT ![i] =
                        [citizen_id  |-> c,
                         description |-> b.description,
                         fine_amount |-> b.fine_amount,
                         date        |-> b.date]]
  /\ citationsAtCall' = [citationsAtCall EXCEPT ![i] = citations]
  /\ recordsAtCall' = [recordsAtCall EXCEPT ![i] = criminal_records]
  /\ acquired' = [acquired EXCEPT ![i] = 0]
  /\ released' = [released EXCEPT ![i] = 0]
  /\ UNCHANGED <<calcVars, httpVars, histVars, dbVars, previousCitations, penalty, tx, held,
                 thrown, result, failures>>

\* The existence check with its result ignored.
CheckCitizenNoThrow(i) ==
  /\ pc[i] = "check"
  /\ pc' = [pc EXCEPT ![i] = "count"]
  /\ UNCHANGED <<calcVars, httpVars, histVars, dbVars, citationData, previousCitations, penalty,
                 tx, held, thrown, result, calls, failures, acquired, released,
                 citationsAtCall, recordsAtCall>>

\* Lines 209-212: the existence check and the not-found error.
CheckCitizen(i) ==
  /\ pc[i] = "check"
  /\ IF checkCitizenExistsDB(citationData[i].citizen_id)
       THEN /\ pc' = [pc EXCEPT ![i] = "count"]
            /\ UNCHANGED thrown
       ELSE /\ pc' = [pc EXCEPT ![i] = "threw"]
            /\ thrown' = [thrown EXCEPT ![i] = NotFoundError]
  /\ UNCHANGED <<calcVars, httpVars, histVars, dbVars, citationData, previousCitations, penalty,
                 tx, held, result, calls, failures, acquired, released,
                 citationsAtCall, recordsAtCall>>

\* A storage call made before the try block throws: the error leaves
\* createCitationDB at once (lines 209, 215, 229, 230).
ThrowOutsideTry(i, at) ==
  /\ pc[i] = at
  /\ MayFail
  /\ failures' = failures + 1
  /\ pc' = [pc EXCEPT ![i] = "threw"]
  /\ thrown' = [thrown EXCEPT ![i] = StorageError]
  /\ UNCHANGED <<calcVars, httpVars, histVars, dbVars, citationData, previousCitations, penalty,
                 tx, held, result, calls, acquired, released,
                 citationsAtCall, recordsAtCall>>

CheckCitizenFails(i) == ThrowOutsideTry(i, "check")

\* Lines 215-226: the count, and the penalty computed from it.
CountCitations(i) ==
  /\ pc[i] = "count"
  /\ previousCitations' = [previousCitations EXCEPT ![i] =
                             countCitationsByCitizenDB(citationData[i].citizen_id)]
  /\ penalty' = [penalty EXCEPT ![i] = calculatePenalty(previousCitations'[i])]
  /\ pc' = [pc EXCEPT ![i] = "getConnection"]
  /\ UNCHANGED <<calcVars, httpVars, histVars, dbVars, citationData, tx, held, thrown, result,
                 calls, failures, acquired, released,
                 citationsAtCall, recordsAtCall>>

CountCitationsFails(i) == ThrowOutsideTry(i, "count")

\* Line 229: connection.getConnection() hands the invocation a connection of
\* its own, on which its transaction runs; reads made through the module-level
\* connection see committed rows only. Database.js builds that object with
\* mysql.createConnection: where it offers no getConnection, the call throws
\* (GetConnectionFails) and nothing is written.
GetConnection(i) ==
  /\ pc[i] = "getConnection"
  /\ held' = [held EXCEPT ![i] = TRUE]
  /\ acquired' = [acquired EXCEPT ![i] = @ + 1]
  /\ pc' = [pc EXCEPT ![i] = "begin"]
  /\ UNCHANGED <<calcVars, httpVars, histVars, dbVars, citationData, previousCitations, penalty,
                 tx, thrown, result, calls, failures, released,
                 citationsAtCall, recordsAtCall>>

GetConnectionFails(i) == ThrowOutsideTry(i, "getConnection")

\* Line 230.
BeginTransaction(i) ==
  /\ pc[i] = "begin"
  /\ tx' = [tx EXCEPT ![i] = [NoTx EXCEPT !.open = TRUE]]
  /\ pc' = [pc EXCEPT ![i] = "insertCitation"]
  /\ UNCHANGED <<calcVars, httpVars, histVars, dbVars, citationData, previousCitations, penalty,
                 held, thrown, result, calls, failures, acquired, released,
                 citationsAtCall, recordsAtCall>>

\* beginTransaction is awaited before the try: no rollback, no release.
BeginTransactionFails(i) == ThrowOutsideTry(i, "begin")

\* A statement inside the try block throws: control goes to the catch.
ThrowInsideTry(i, at) ==
  /\ pc[i] = at
  /\ MayFail
  /\ failures' = failures + 1
  /\ pc' = [pc EXCEPT ![i] = "rollback"]
  /\ thrown' = [thrown EXCEPT ![i] = StorageError]
  /\ attempts' = [attempts EXCEPT
                    ![i].citation = IF at = "insertCitation" THEN @ + 1 ELSE @,
                    ![i].record = IF at = "insertRecord" THEN @ + 1 ELSE @]
  /\ UNCHANGED <<calcVars, httpVars, lastOrdinal, lastFail, adminOps, dbVars,
                 citationData, previousCitations, penalty,
                 tx, held, result, calls, acquired, released,
                 citationsAtCall, recordsAtCall>>

\* Line 234: INSERT INTO citations inside the transaction. The foreign key
\* citations_ibfk_1 rejects a row whose citizen is gone.
InsertCitation(i) ==
  /\ pc[i] = "insertCitation"
  /\ attempts' = [attempts EXCEPT ![i].citation = @ + 1]
  /\ IF citationData[i].citizen_id \in citizens
       THEN /\ tx' = [tx EXCEPT ![i].citations = @ \cup {newCitation(i, nextCitationId)}]
            /\ result' = [result EXCEPT ![i].insertId = nextCitationId]
            /\ nextCitationId' = nextCitationId + 1
            /\ pc' = [pc EXCEPT ![i] = IF penalty[i].creates_criminal_record
                                          THEN "insertRecord" ELSE "commit"]
            /\ UNCHANGED thrown
       ELSE /\ thrown' = [thrown EXCEPT ![i] = StorageError]
            /\ pc' = [pc EXCEPT ![i] = "rollback"]
            /\ UNCHANGED <<tx, result, nextCitationId>>
  /\ UNCHANGED <<calcVars, httpVars, lastOrdinal, lastFail, adminOps,
                 citizens, citations, criminal_records, nextRecordId,
                 citationData, previousCitations, penalty, held,
                 calls, failures, acquired, released,
                 citationsAtCall, recordsAtCall>>

\* A failed citation insert that is issued again.
InsertCitationRetries(i) ==
  /\ pc[i] = "insertCitation"
  /\ MayFail
  /\ failures' = failures + 1
  /\ attempts' = [attempts EXCEPT ![i].citation = @ + 1]
  /\ UNCHANGED <<calcVars, httpVars, lastOrdinal, lastFail, adminOps, dbVars, pc,
                 citationData, previousCitations, penalty, thrown,
                 tx, held, result, calls, acquired, released,
                 citationsAtCall, recordsAtCall>>

\* A failed citation insert whose error is swallowed: the commit follows.
InsertCitationFailsSilently(i) ==
  /\ pc[i] = "insertCitation"
  /\ MayFail
  /\ failures' = failures + 1
  /\ attempts' = [attempts EXCEPT ![i].citation = @ + 1]
  /\ pc' = [pc EXCEPT ![i] = "commit"]
  /\ UNCHANGED <<calcVars, httpVars, lastOrdinal, lastFail, adminOps, dbVars,
                 citationData, previousCitations, penalty, thrown,
                 tx, held, result, calls, acquired, released,
                 citationsAtCall, recordsAtCall>>

InsertCitationFails(i) == ThrowInsideTry(i, "insertCitation")

\* Lines 237-248: INSERT INTO criminal_records in the same transaction,
\* under the foreign key criminal_records_ibfk_1.
InsertCriminalRecord(i) ==
  /\ pc[i] = "insertRecord"
  /\ attempts' = [attempts EXCEPT ![i].record = @ + 1]
  /\ IF citationData[i].citizen_id \in citizens
       THEN /\ tx' = [tx EXCEPT ![i].criminal_records =
                                   @ \cup {criminalRecord(i, nextRecordId)}]
            /\ nextRecordId' = nextRecordId + 1
            /\ pc' = [pc EXCEPT ![i] = "commit"]
            /\ UNCHANGED thrown
       ELSE /\ thrown' = [thrown EXCEPT ![i] = StorageError]
            /\ pc' = [pc EXCEPT ![i] = "rollback"]
            /\ UNCHANGED <<tx, nextRecordId>>
  /\ UNCHANGED <<calcVars, httpVars, lastOrdinal, lastFail, adminOps,
                 citizens, citations, criminal_records, nextCitationId,
                 citationData, previousCitations, penalty, held, result,
                 calls, failures, acquired, released,
                 citationsAtCall, recordsAtCall>>

InsertCriminalRecordFails(i) == ThrowInsideTry(i, "insertRecord")

\* A commit that publishes the citation rows only.
CommitCitationsOnly(i) ==
  /\ pc[i] = "commit"
  /\ citations' = citations \cup tx[i].citations
  /\ tx' = [tx EXCEPT ![i] = NoTx]
  /\ result' = [result EXCEPT ![i] =
                  [insertId |-> result[i].insertId,
                   penalty |-> penalty[i],
                   criminal_record_created |-> penalty[i].creates_criminal_record]]
  /\ thrown' = [thrown EXCEPT ![i] = NoError]
  /\ pc' = [pc EXCEPT ![i] = "release"]
  /\ lastOrdinal' = [lastOrdinal EXCEPT ![citationData[i].citizen_id] =
                        IF penalty[i].citation_number > @
                          THEN penalty[i].citation_number ELSE @]
  /\ lastFail' = IF lastFail.data.citizen_id = citationData[i].citizen_id
                   THEN NoFail ELSE lastFail
  /\ UNCHANGED <<calcVars, httpVars, attempts, adminOps, citizens, criminal_records, nextCitationId,
                 nextRecordId, citationData, previousCitations, penalty, held,
                 calls, failures, acquired, released,
                 citationsAtCall, recordsAtCall>>

\* Lines 251-257: the commit publishes the rows of the transaction, and the
\* result object is built.
Commit(i) ==
  /\ pc[i] = "commit"
  /\ citations' = citations \cup tx[i].citations
  /\ criminal_records' = criminal_records \cup tx[i].criminal_records
  /\ tx' = [tx EXCEPT ![i] = NoTx]
  /\ result' = [result EXCEPT ![i] =
                  [insertId |-> result[i].insertId,
                   penalty |-> penalty[i],
                   criminal_record_created |-> penalty[i].creates_criminal_record]]
  /\ thrown' = [thrown EXCEPT ![i] = NoError]
  /\ pc' = [pc EXCEPT ![i] = "release"]
  /\ lastOrdinal' = [lastOrdinal EXCEPT ![citationData[i].citizen_id] =
                        IF penalty[i].citation_number > @
                          THEN penalty[i].citation_number ELSE @]
  /\ lastFail' = IF lastFail.data.citizen_id = citationData[i].citizen_id
                   THEN NoFail ELSE lastFail
  /\ UNCHANGED <<calcVars, httpVars, attempts, adminOps, citizens, nextCitationId, nextRecordId,
                 citationData, previousCitations, penalty, held,
                 calls, failures, acquired, released,
                 citationsAtCall, recordsAtCall>>

CommitFails(i) == ThrowInsideTry(i, "commit")

\* A catch block that leaves the citation insert in place.
RollbackKeepsCitation(i) ==
  /\ pc[i] = "rollback"
  /\ citations' = citations \cup tx[i].citations
  /\ tx' = [tx EXCEPT ![i] = NoTx]
  /\ pc' = [pc EXCEPT ![i] = "release"]
  /\ UNCHANGED <<calcVars, httpVars, histVars, citizens, criminal_records, nextCitationId,
                 nextRecordId, citationData, previousCitations, penalty,
                 held, thrown, result, calls, failures, acquired, released,
                 citationsAtCall, recordsAtCall>>

\* A rollback on a connection every invocation shares: all pending rows go.
RollbackShared(i) ==
  /\ pc[i] = "rollback"
  /\ tx' = [j \in Procs |-> NoTx]
  /\ pc' = [pc EXCEPT ![i] = "release"]
  /\ UNCHANGED <<calcVars, httpVars, histVars, dbVars, citationData, previousCitations,
                 penalty, held, thrown, result, calls, failures, acquired,
                 released, citationsAtCall, recordsAtCall>>

\* A catch block that rethrows without rolling back.
RollbackSkipped(i) ==
  /\ pc[i] = "rollback"
  /\ pc' = [pc EXCEPT ![i] = "release"]
  /\ UNCHANGED <<calcVars, httpVars, histVars, dbVars, citationData, previousCitations,
                 penalty, tx, held, thrown, result, calls, failures, acquired,
                 released, citationsAtCall, recordsAtCall>>

\* Lines 259-262: the catch block rolls the transaction back.
Rollback(i) ==
  /\ pc[i] = "rollback"
  /\ tx' = [tx EXCEPT ![i] = NoTx]
  /\ pc' = [pc EXCEPT ![i] = "release"]
  /\ UNCHANGED <<calcVars, httpVars, histVars, dbVars, citationData, previousCitations, penalty,
                 held, thrown, result, calls, failures, acquired, released,
                 citationsAtCall, recordsAtCall>>

\* rollback() itself throws (the connection is lost: the server drops the
\* open transaction); its error replaces the one being handled.
RollbackFails(i) ==
  /\ pc[i] = "rollback"
  /\ MayFail
  /\ failures' = failures + 1
  /\ tx' = [tx EXCEPT ![i] = NoTx]
  /\ thrown' = [thrown EXCEPT ![i] = RollbackError]
  /\ pc' = [pc EXCEPT ![i] = "release"]
  /\ UNCHANGED <<calcVars, httpVars, histVars, dbVars, citationData, previousCitations, penalty,
                 held, result, calls, acquired, released,
                 citationsAtCall, recordsAtCall>>

\* Lines 263-266: the finally block, then the return or the rethrow.
Release(i) ==
  /\ pc[i] = "release"
  /\ held' = [held EXCEPT ![i] = FALSE]
  /\ released' = [released EXCEPT ![i] = @ + 1]
  /\ pc' = [pc EXCEPT ![i] = IF thrown[i] = NoError THEN "returned" ELSE "threw"]
  /\ lastFail' = IF thrown[i] = NoError
                   THEN lastFail
                   ELSE [valid    |-> TRUE,
                         data     |-> citationData[i],
                         ordinal  |-> penalty[i].citation_number,
                         decision |-> penalty[i].creates_criminal_record]
  /\ UNCHANGED <<calcVars, httpVars, attempts, lastOrdinal, adminOps, dbVars, citationData, previousCitations, penalty,
                 tx, thrown, result, calls, failures, acquired,
                 citationsAtCall, recordsAtCall>>

\* The caller has taken the result or the error; the request is over.
Finish(i) ==
  /\ pc[i] \in {"returned", "threw"}
  /\ pc' = [pc EXCEPT ![i] = "idle"]
  /\ citationData' = [citationData EXCEPT ![i] = NoData]
  /\ previousCitations' = [previousCitations EXCEPT ![i] = 0]
  /\ penalty' = [penalty EXCEPT ![i] = NoPenalty]
  /\ tx' = [tx EXCEPT ![i] = NoTx]
  /\ held' = [held EXCEPT ![i] = FALSE]
  /\ thrown' = [thrown EXCEPT ![i] = NoError]
  /\ result' = [result EXCEPT ![i] = NoResult]
  /\ citationsAtCall' = [citationsAtCall EXCEPT ![i] = {}]
  /\ recordsAtCall' = [recordsAtCall EXCEPT ![i] = {}]
  /\ attempts' = [attempts EXCEPT ![i] = NoAttempts]
  /\ UNCHANGED <<calcVars, httpVars, lastOrdinal, lastFail, adminOps, dbVars,
                 calls, failures, acquired, released>>

Step(i) ==
  \/ CheckCitizen(i)
  \/ CheckCitizenFails(i)
  \/ CountCitations(i)
  \/ CountCitationsFails(i)
  \/ GetConnection(i)
  \/ GetConnectionFails(i)
  \/ BeginTransaction(i)
  \/ BeginTransactionFails(i)
  \/ InsertCitation(i)
  \/ InsertCitationFails(i)
  \/ InsertCriminalRecord(i)
  \/ InsertCriminalRecordFails(i)
  \/ Commit(i)
  \/ CommitFails(i)
  \/ Rollback(i)
  \/ RollbackFails(i)
  \/ Release(i)
  \/ Finish(i)

\* Requests are served concurrently: any invocation may take its next step.
CallOverlapping(i, c, b) ==
  /\ calls < MaxOverlapCalls
  /\ Call(i, c, b)

Next ==
  \/ \E i \in Procs, c \in CitizenIds, b \in RequestBodies : CallOverlapping(i, c, b)
  \/ \E i \in Procs : Step(i)

Spec == Init /\ [][Next]_vars

\* One request at a time: a call starts only when no other is in flight.
CallAlone(i, c, b) ==
  /\ calls < MaxCalls
  /\ \A j \in Procs : pc[j] = "idle"
  /\ Call(i, c, b)

NextSeq ==
  \/ \E i \in Procs, c \in CitizenIds, b \in RequestBodies : CallAlone(i, c, b)
  \/ \E i \in Procs : Step(i)

SpecSeq == Init /\ [][NextSeq]_vars

\* ------------------------------------------- administrative operations
\* Administrative operations so far, and whether one more fits the bound.
AdminOpsDone == adminOps.deleted + adminOps.updated + adminOps.citizens
MayAdminister == AdminOpsDone < MaxAdminOps

\* Committed citation rows with a given id.
CitationsWithId(id) == {r \in citations : r.id = id}

\* The last failed filing stays comparable while no citation of its citizen
\* is touched.
ForgetFailIf(touched) == IF touched THEN NoFail ELSE lastFail

\* A delete that re-evaluates the escalation: below 3 citations the
\* citizen's criminal records go too.
DeleteCitationCascade(id) ==
  /\ MayAdminister
  /\ CitationsWithId(id) # {}
  /\ adminOps' = [adminOps EXCEPT !.deleted = @ + 1]
  /\ citations' = citations \ CitationsWithId(id)
  /\ criminal_records' =
       {r \in criminal_records :
          \A d \in CitationsWithId(id) : r.citizen_id # d.citizen_id}
  /\ lastFail' = ForgetFailIf(\E r \in CitationsWithId(id) :
                                 r.citizen_id = lastFail.data.citizen_id)
  /\ UNCHANGED <<calcVars, httpVars, procVars, attempts, lastOrdinal,
                 citizens, nextCitationId, nextRecordId>>

\* deleteCitationDB(citationId): DELETE FROM citations WHERE id = ?
DeleteCitation(id) ==
  /\ MayAdminister
  /\ CitationsWithId(id) # {}
  /\ adminOps' = [adminOps EXCEPT !.deleted = @ + 1]
  /\ citations' = citations \ CitationsWithId(id)
  /\ lastFail' = ForgetFailIf(\E r \in CitationsWithId(id) :
                                 r.citizen_id = lastFail.data.citizen_id)
  /\ UNCHANGED <<calcVars, httpVars, procVars, attempts, lastOrdinal,
                 citizens, criminal_records, nextCitationId, nextRecordId>>

\* The fields an administrator sets in an update.
UpdateData ==
  [field : {"citizen_id"}, value : CitizenIds]
    \cup [field : {"fine_amount"}, value : {0}]

\* UPDATE citations SET ? WHERE id = ? applied to one row.
UpdatedRow(r, data) ==
  IF data.field = "citizen_id"
    THEN [r EXCEPT !.citizen_id = data.value]
    ELSE [r EXCEPT !.fine_amount = data.value]

\* updateCitationDB(citationId, citationData): a citizen_id that matches no
\* citizen throws before the update; otherwise the row is rewritten.
UpdateCitation(id, data) ==
  /\ MayAdminister
  /\ CitationsWithId(id) # {}
  /\ adminOps' = [adminOps EXCEPT !.updated = @ + 1]
  /\ IF data.field = "citizen_id" /\ ~checkCitizenExistsDB(data.value)
       THEN UNCHANGED <<citations, lastFail>>
       ELSE /\ citations' = (citations \ CitationsWithId(id))
                              \cup {UpdatedRow(r, data) : r \in CitationsWithId(id)}
            /\ lastFail' = ForgetFailIf(
                 \/ \E r \in CitationsWithId(id) :
                       r.citizen_id = lastFail.data.citizen_id
                 \/ (data.field = "citizen_id"
                       /\ data.value = lastFail.data.citizen_id))
  /\ UNCHANGED <<calcVars, httpVars, procVars, attempts, lastOrdinal,
                 citizens, criminal_records, nextCitationId, nextRecordId>>

\* Rows, committed or pending in an open transaction, that reference c.
ReferencedCitizen(c) ==
  \/ \E r \in citations : r.citizen_id = c
  \/ \E r \in criminal_records : r.citizen_id = c
  \/ \E i \in Procs :
       \/ \E r \in tx[i].citations : r.citizen_id = c
       \/ \E r \in tx[i].criminal_records : r.citizen_id = c

\* A citizen delete with no foreign key on the citizen's rows.
DeleteCitizenUnchecked(c) ==
  /\ MayAdminister
  /\ c \in citizens
  /\ adminOps' = [adminOps EXCEPT !.citizens = @ + 1]
  /\ citizens' = citizens \ {c}
  /\ UNCHANGED <<calcVars, httpVars, procVars, attempts, lastOrdinal, lastFail,
                 citations, criminal_records, nextCitationId, nextRecordId>>

\* deleteCitizenDB(id): DELETE FROM citizens WHERE id = ? The foreign keys
\* citations_ibfk_1 and criminal_records_ibfk_1 carry no ON DELETE clause:
\* the delete fails while a row references the citizen, and waits on the row
\* lock of a transaction that has inserted such a row.
DeleteCitizen(c) ==
  /\ MayAdminister
  /\ c \in citizens
  /\ adminOps' = [adminOps EXCEPT !.citizens = @ + 1]
  /\ citizens' = IF ReferencedCitizen(c) THEN citizens ELSE citizens \ {c}
  /\ UNCHANGED <<calcVars, httpVars, procVars, attempts, lastOrdinal, lastFail,
                 citations, criminal_records, nextCitationId, nextRecordId>>

\* Filings one at a time, with administrators at work at any moment.
CallBetweenAdminOps(i, c, b) ==
  /\ calls < MaxAdminCalls
  /\ \A j \in Procs : pc[j] = "idle"
  /\ Call(i, c, b)

NextAdmin ==
  \/ \E i \in Procs, c \in CitizenIds, b \in RequestBodies : CallBetweenAdminOps(i, c, b)
  \/ \E i \in Procs : Step(i)
  \/ \E r \in citations : DeleteCitation(r.id)
  \/ \E r \in citations, data \in UpdateData : UpdateCitation(r.id, data)
  \/ \E c \in CitizenIds : DeleteCitizen(c)

SpecAdmin == InitLoaded /\ [][NextAdmin]_vars

\* Filings that overlap two at a time, for citizens of the registry, on the
\* database in use.
CallPair(i, c, b) ==
  /\ calls < MaxPairCalls
  /\ i \in {1, 2}
  /\ Call(i, c, b)

NextPair ==
  \/ \E i \in Procs, c \in InitialCitizens, b \in RequestBodies : CallPair(i, c, b)
  \/ \E i \in Procs : Step(i)

SpecPair == InitLoaded /\ [][NextPair]_vars

\* Filings one at a time on the database in use, every invocation being
\* resumed whenever a storage call it awaits has returned or thrown (the
\* event loop runs every settled continuation).
CallResumed(i, c, b) ==
  /\ calls < MaxLiveCalls
  /\ \A j \in Procs : pc[j] = "idle"
  /\ Call(i, c, b)

NextLive ==
  \/ \E i \in Procs, c \in CitizenIds, b \in RequestBodies : CallResumed(i, c, b)
  \/ \E i \in Procs : Step(i)

SpecLive ==
  InitLoaded /\ [][NextLive]_vars /\ \A i \in Procs : WF_vars(Step(i))

\* --------------------------------------------- requests over HTTP
\* The variables of the invocations other than the failure budget.
procVarsButFailures ==
  <<pc, citationData, previousCitations, penalty, tx, held, thrown, result,
    calls, acquired, released, citationsAtCall, recordsAtCall>>

\* A storage call of the HTTP layer may throw, while its budget lasts.
MayFailOverHttp == failures < MaxHttpFailures

\* A request arrives on one of the two routes (the server of this model
\* takes the next request when the one before it is over).
Request(route, token, c, b) ==
  /\ hpc = "idle"
  /\ route = CreateRoute => calls < MaxHttpCalls
  /\ \A j \in Procs : pc[j] = "idle"
  /\ req' = [route |-> route, token |-> token, citizenId |-> c,
             body |-> IF route = CreateRoute THEN b ELSE NoBody,
             user |-> NoUser, errors |-> {}]
  /\ response' = NoResponse
  /\ hpc' = "authenticateToken"
  /\ UNCHANGED <<calcVars, dbVars, procVars, histVars, handler, summary>>

\* res.status(status).json(body) by a middleware or handler: the request is
\* answered and goes no further.
Answer(status, by, body) ==
  /\ response' = [status |-> status, by |-> by, body |-> body]
  /\ hpc' = "responded"

\* authenticateToken: 401 without a token or with one jwt.verify rejects,
\* otherwise req.user is set from the payload and next() is called.
AuthenticateToken ==
  /\ hpc = "authenticateToken"
  /\ IF ~req.token.present
       THEN /\ Answer(401, "authenticateToken",
                      [status |-> "error", message |-> "Token de acceso requerido"])
            /\ UNCHANGED req
       ELSE IF ~req.token.valid
         THEN /\ Answer(401, "authenticateToken",
                        [status |-> "error", message |-> "Token inválido o expirado"])
              /\ UNCHANGED req
         ELSE /\ req' = [req EXCEPT !.user = [role |-> req.token.role]]
              /\ hpc' = "authorizeRole"
              /\ UNCHANGED response
  /\ UNCHANGED <<calcVars, dbVars, procVars, histVars, handler, summary>>

\* authorizeRole(allowedRoles): 401 without req.user.role, 403 when the role
\* is not among the route's roles, next() otherwise.
AuthorizeRole ==
  /\ hpc = "authorizeRole"
  /\ IF req.user.role = NoRole
       THEN Answer(401, "authorizeRole",
                   [status |-> "error", message |-> "Autenticación de usuario requerida"])
       ELSE IF req.user.role \notin AllowedRoles(req.route)
         THEN Answer(403, "authorizeRole",
                     [status |-> "error", message |-> "Acceso denegado"])
         ELSE /\ hpc' = IF req.route = CreateRoute
                          THEN "sanitizeInput" ELSE "validation"
              /\ UNCHANGED response
  /\ UNCHANGED <<calcVars, dbVars, procVars, histVars, req, handler, summary>>

\* sanitizeInput: req.body.description is trimmed and stripped of < and >.
SanitizeInput ==
  /\ hpc = "sanitizeInput"
  /\ req' = [req EXCEPT !.body.description = SanitizedDescription(@)]
  /\ hpc' = "validation"
  /\ UNCHANGED <<calcVars, dbVars, procVars, histVars, handler, summary,
                 response>>

\* The fields createCitationValidation / getCitizenPenaltySummaryValidation
\* reject: citizenId below 1 or of no citizen, and on the POST route a
\* description that is empty or not of 10 to 1000 characters.
ValidationErrors ==
  (IF req.citizenId < 1 \/ ~checkCitizenExistsDB(req.citizenId)
     THEN {"citizenId"} ELSE {})
    \cup (IF req.route = CreateRoute
               /\ (DescriptionLength(req.body.description) < 10
                     \/ DescriptionLength(req.body.description) > 1000)
            THEN {"description"} ELSE {})

\* The validation chain runs; its errors are kept in the request.
Validation ==
  /\ hpc = "validation"
  /\ req' = [req EXCEPT !.errors = ValidationErrors]
  /\ hpc' = "handleValidationErrors"
  /\ UNCHANGED <<calcVars, dbVars, procVars, histVars, handler, summary,
                 response>>

\* The existence query of the custom validator throws: express-validator
\* records it as an error of the field.
ValidationQueryFails ==
  /\ hpc = "validation"
  /\ MayFailOverHttp
  /\ failures' = failures + 1
  /\ req' = [req EXCEPT !.errors = ValidationErrors \cup {"citizenId"}]
  /\ hpc' = "handleValidationErrors"
  /\ UNCHANGED <<calcVars, dbVars, procVarsButFailures, histVars, handler,
                 summary, response>>

\* handleValidationErrors: 400 with the errors, or next() to the handler.
HandleValidationErrors ==
  /\ hpc = "handleValidationErrors"
  /\ IF req.errors = {}
       THEN /\ hpc' = IF req.route = CreateRoute THEN "count" ELSE "summaryCount"
            /\ UNCHANGED response
       ELSE Answer(400, "handleValidationErrors",
                   [status |-> "error", message |-> "Error de validación",
                    errors |-> req.errors])
  /\ UNCHANGED <<calcVars, dbVars, procVars, histVars, req, handler, summary>>

\* Messages of the errors a request may meet; the TypeError is the one of
\* reading a property of null.
TypeErrorOfNull == "Cannot read properties of null (reading 'id')"

\* error.message.includes('no existe') on the messages above.
IncludesNoExiste(message) ==
  CASE message = NotFoundError -> TRUE
    [] message = StorageError -> FALSE
    [] message = RollbackError -> FALSE
    [] message = TypeErrorOfNull -> FALSE

\* A catch block that looks for an English message.
CaughtLookingForNotFound(error) ==
  Answer(500, "createCitation",
         [status |-> "error",
          message |-> "Error interno del servidor al crear la citación",
          error |-> error])

\* Lines 167-183: the catch block of createCitation.
Caught(error) ==
  IF IncludesNoExiste(error)
    THEN Answer(400, "createCitation",
                [status |-> "error", message |-> error])
    ELSE Answer(500, "createCitation",
                [status |-> "error",
                 message |-> "Error interno del servidor al crear la citación",
                 error |-> error])

\* Lines 116-124: the handler's own count and the penalty it will report.
HandlerCount ==
  /\ hpc = "count"
  /\ handler' = [previousCitations |-> countCitationsByCitizenDB(req.citizenId),
                 penalty |-> calculatePenalty(
                               countCitationsByCitizenDB(req.citizenId))]
  /\ hpc' = "createCitationDB"
  /\ UNCHANGED <<calcVars, dbVars, procVars, histVars, req, summary,
                 response>>

HandlerCountFails ==
  /\ hpc = "count"
  /\ MayFailOverHttp
  /\ failures' = failures + 1
  /\ Caught(StorageError)
  /\ UNCHANGED <<calcVars, dbVars, procVarsButFailures, histVars, req, handler,
                 summary>>

\* Line 127: createCitationDB(citationData), citizen_id taken from the URL.
HandlerCallsModel(i) ==
  /\ hpc = "createCitationDB"
  /\ \A j \in Procs : pc[j] = "idle"
  /\ Call(i, req.citizenId, req.body)

\* The invocation the handler awaits takes its steps; its result or error
\* stays with the handler until the request is over.
AwaitedStep(i) ==
  /\ pc[i] \in {"returned", "threw"} => hpc = "idle"
  /\ Step(i)
  /\ failures' <= MaxHttpFailures

\* createCitationDB threw: the catch block answers.
HandlerCatches(i) ==
  /\ hpc = "createCitationDB"
  /\ pc[i] = "threw"
  /\ Caught(thrown[i])
  /\ UNCHANGED <<calcVars, dbVars, procVars, histVars, req, handler, summary>>

\* getCitationByIdDB(citationId): the citation joined with its citizen, the
\* set being empty where the query returns null.
getCitationByIdDB(citationId) ==
  {[id |-> r.id, citizen_id |-> r.citizen_id,
    citizen_name |-> <<"full_name", r.citizen_id>>,
    citizen_last_name |-> <<"last_name", r.citizen_id>>,
    date |-> r.date, description |-> r.description,
    fine_amount |-> r.fine_amount] :
     r \in {x \in citations : x.id = citationId /\ x.citizen_id \in citizens}}

\* A status that does not tell the two cases apart.
StatusCodeCreated(criminal_record_created) == 201

\* Line 164.
StatusCode(criminal_record_created) ==
  IF criminal_record_created THEN 202 ELSE 201

\* Lines 156-158.
RecordWarning(criminal_record_created) ==
  IF criminal_record_created
    THEN "ATENCIÓN: Se ha creado automáticamente un antecedente penal por acumulación de citaciones"
    ELSE Null

\* Lines 133-161: the response object, built from the fetched citation, the
\* handler's own penalty and the result of createCitationDB.
SuccessBody(row, penaltyOfHandler, resultOfModel) ==
  [status |-> "success",
   message |-> "Citación registrada exitosamente con penalización automática aplicada",
   data |->
     [citation |-> row,
      penalty_details |->
        [citation_number     |-> penaltyOfHandler.citation_number,
         fine_amount         |-> penaltyOfHandler.fine_amount,
         civic_course_hours  |-> penaltyOfHandler.civic_course_hours,
         civic_work_days     |-> penaltyOfHandler.civic_work_days,
         jail_days           |-> penaltyOfHandler.jail_days,
         penalty_description |-> penaltyOfHandler.penalty_description],
      automatic_actions |->
        [criminal_record_created |-> resultOfModel.criminal_record_created,
         warning |-> RecordWarning(resultOfModel.criminal_record_created)]]]

\* Lines 130-166: the new citation is fetched and the answer is sent; a
\* citation that is gone by then makes newCitation.id throw.
HandlerFetch(i) ==
  /\ hpc = "createCitationDB"
  /\ pc[i] = "returned"
  /\ IF getCitationByIdDB(result[i].insertId) = {}
       THEN Caught(TypeErrorOfNull)
       ELSE \E row \in getCitationByIdDB(result[i].insertId) :
              Answer(StatusCode(result[i].criminal_record_created),
                     "createCitation",
                     SuccessBody(row, handler.penalty, result[i]))
  /\ UNCHANGED <<calcVars, dbVars, procVars, histVars, req, handler, summary>>

HandlerFetchFails(i) ==
  /\ hpc = "createCitationDB"
  /\ pc[i] = "returned"
  /\ MayFailOverHttp
  /\ failures' = failures + 1
  /\ Caught(StorageError)
  /\ UNCHANGED <<calcVars, dbVars, procVarsButFailures, histVars, req, handler,
                 summary>>

\* SUM(fine_amount) over a set of rows (0 where SQL gives NULL).
RECURSIVE SumOfFines(_)
SumOfFines(rows) ==
  IF rows = {} THEN 0
  ELSE LET r == CHOOSE x \in rows : TRUE
       IN r.fine_amount + SumOfFines(rows \ {r})

\* getCitizenPenaltySummaryDB, lines 446-447: the count and the penalty the
\* next citation would get.
SummaryCount ==
  /\ hpc = "summaryCount"
  /\ summary' = [total_citations |-> countCitationsByCitizenDB(req.citizenId),
                 total_fines |-> 0,
                 next_penalty |-> calculatePenalty(
                                    countCitationsByCitizenDB(req.citizenId))]
  /\ hpc' = "summarySum"
  /\ UNCHANGED <<calcVars, dbVars, procVars, histVars, req, handler,
                 response>>

\* Lines 445-451 of the controller: the catch block of the summary handler.
SummaryFails(at) ==
  /\ hpc = at
  /\ MayFailOverHttp
  /\ failures' = failures + 1
  /\ Answer(500, "getCitizenPenaltySummary",
            [status |-> "error",
             message |-> "Error interno del servidor al obtener resumen de penalizaciones",
             error |-> StorageError])
  /\ UNCHANGED <<calcVars, dbVars, procVarsButFailures, histVars, req, handler,
                 summary>>

SummaryCountFails == SummaryFails("summaryCount")

\* A warning that starts one citation late.
ApproachingWarningLate(total_citations) ==
  IF total_citations > 2
    THEN "ADVERTENCIA: La próxima citación resultará en antecedentes penales"
    ELSE Null

\* Lines 438-439 of the controller.
ApproachingWarning(total_citations) ==
  IF total_citations >= 2
    THEN "ADVERTENCIA: La próxima citación resultará en antecedentes penales"
    ELSE Null

\* Lines 440-441 of the controller.
EscalationNotice(total_citations) ==
  IF total_citations > 0
    THEN <<"El ciudadano tiene ", total_citations, " citación(es) previa(s)">>
    ELSE <<Null>>

\* Lines 427-444 of the controller.
SummaryBody(citizenId, s) ==
  [status |-> "success",
   message |-> "Resumen de penalizaciones obtenido correctamente",
   data |->
     [citizen_id |-> citizenId,
      current_status |-> [total_citations |-> s.total_citations,
                          total_fines |-> s.total_fines],
      next_citation_penalty |-> s.next_penalty,
      warnings |->
        [approaching_criminal_record |-> ApproachingWarning(s.total_citations),
         escalation_notice |-> EscalationNotice(s.total_citations)]]]

\* Lines 450-459 of the model, then the answer of the controller.
SummarySum ==
  /\ hpc = "summarySum"
  /\ summary' = [summary EXCEPT !.total_fines =
                   SumOfFines({r \in citations : r.citizen_id = req.citizenId})]
  /\ Answer(200, "getCitizenPenaltySummary",
            SummaryBody(req.citizenId, summary'))
  /\ UNCHANGED <<calcVars, dbVars, procVars, histVars, req, handler>>

SummarySumFails == SummaryFails("summarySum")

\* The answer is on the wire and the invocation is over: the request object
\* and the locals are dropped.
RequestOver ==
  /\ hpc = "responded"
  /\ hpc' = "idle"
  /\ req' = NoRequest
  /\ handler' = NoHandler
  /\ summary' = NoSummary
  /\ response' = NoResponse
  /\ UNCHANGED <<calcVars, dbVars, procVars, histVars>>

\* Administrators delete citations and citizens while requests are served.
MayAdministerOverHttp == AdminOpsDone < MaxHttpAdminOps

NextHttp ==
  \/ \E route \in {CreateRoute, SummaryRoute}, token \in Tokens,
        c \in UrlCitizenIds, b \in HttpBodies : Request(route, token, c, b)
  \/ AuthenticateToken
  \/ AuthorizeRole
  \/ SanitizeInput
  \/ Validation
  \/ ValidationQueryFails
  \/ HandleValidationErrors
  \/ HandlerCount
  \/ HandlerCountFails
  \/ \E i \in Procs : HandlerCallsModel(i)
  \/ \E i \in Procs : AwaitedStep(i)
  \/ \E i \in Procs : HandlerCatches(i)
  \/ \E i \in Procs : HandlerFetch(i)
  \/ \E i \in Procs : HandlerFetchFails(i)
  \/ SummaryCount
  \/ SummaryCountFails
  \/ SummarySum
  \/ SummarySumFails
  \/ RequestOver
  \/ \E r \in citations : MayAdministerOverHttp /\ DeleteCitation(r.id)
  \/ \E c \in CitizenIds : MayAdministerOverHttp /\ DeleteCitizen(c)

SpecHttp == InitLoaded /\ [][NextHttp]_vars

\* calculatePenalty called directly, on any count in (-MaxNegative)..MaxPrior.
NextCalcOnly == NextCalc /\ UNCHANGED <<dbVars, procVars, histVars, httpVars>>

SpecCalc == Init /\ [][NextCalcOnly]_vars

\* ------------------------------------------- the citation transaction
\* Rows of a table that reference citizen c.
RowsOf(table, c) == {r \in table : r.citizen_id = c}

\* Rows committed since invocation i was called.
NewCitations(i) == citations \ citationsAtCall[i]
NewRecords(i) == criminal_records \ recordsAtCall[i]

\* Citations citizen c had when invocation i was called.
PriorAtCall(i) == Cardinality(RowsOf(citationsAtCall[i], citationData[i].citizen_id))

\* C1: a successful filing for a citizen with exactly 2 persisted citations
\* commits exactly one citation row and exactly one criminal-record row, both
\* of that citizen; with 0 or 1 persisted citations it commits exactly one
\* citation row and no criminal-record row.
C1_ThirdFilingWritesBothRows ==
  \A i \in Procs :
    pc[i] = "returned" =>
      /\ citationsAtCall[i] \subseteq citations
      /\ recordsAtCall[i] \subseteq criminal_records
      /\ PriorAtCall(i) = 2 =>
           /\ Cardinality(NewCitations(i)) = 1
           /\ Cardinality(NewRecords(i)) = 1
           /\ \A r \in NewCitations(i) : r.citizen_id = citationData[i].citizen_id
           /\ \A r \in NewRecords(i) : r.citizen_id = citationData[i].citizen_id
      /\ PriorAtCall(i) \in {0, 1} =>
           /\ Cardinality(NewCitations(i)) = 1
           /\ \A r \in NewCitations(i) : r.citizen_id = citationData[i].citizen_id
           /\ NewRecords(i) = {}

C1_Witness ==
  \E i \in Procs :
    /\ pc[i] = "returned"
    /\ PriorAtCall(i) = 2
    /\ Cardinality(NewRecords(i)) = 1

\* C2: when a filing fails, none of its rows is persisted: the tables are
\* what they were when it was called and nothing of its transaction is left
\* pending, also when the failure came after the citation insert of an
\* escalating citation.
C2_FailedFilingLeavesNoRow ==
  \A i \in Procs :
    pc[i] = "threw" =>
      /\ citations = citationsAtCall[i]
      /\ criminal_records = recordsAtCall[i]
      /\ tx[i].citations = {}
      /\ tx[i].criminal_records = {}

\* An escalating filing that failed after its citation insert was done.
C2_Witness ==
  \E i \in Procs :
    /\ pc[i] = "threw"
    /\ thrown[i] = StorageError
    /\ penalty[i].creates_criminal_record
    /\ result[i].insertId # 0
    /\ released[i] = 1

\* C3: two invocations for the same citizen never compute the same ordinal:
\* two filings that have both returned carry distinct citation_number values.
C3_DistinctOrdinals ==
  \A i, j \in Procs :
    (/\ i # j
     /\ pc[i] = "returned" /\ pc[j] = "returned"
     /\ citationData[i].citizen_id = citationData[j].citizen_id) =>
       result[i].penalty.citation_number # result[j].penalty.citation_number

\* C4: a citizen with 3 or more committed citations has at least one
\* automatically created criminal record.
C4_ThresholdNeverSkipped ==
  \A c \in CitizenIds :
    countCitationsByCitizenDB(c) >= 3 => countRecordsByCitizen(c) >= 1

\* C5: a filing for an id that matches no citizen fails with the not-found
\* error before a connection is acquired or a transaction begun, and leaves
\* both tables as they were (the existence query itself may fail instead).
C5_UnknownCitizenRejected ==
  \A i \in Procs :
    /\ (pc[i] \notin {"idle", "check"} /\ citationData[i].citizen_id \notin citizens) =>
          /\ pc[i] = "threw"
          /\ thrown[i] \in {NotFoundError, StorageError}
    /\ (pc[i] = "threw" /\ thrown[i] = NotFoundError) =>
          /\ citationData[i].citizen_id \notin citizens
          /\ acquired[i] = 0
          /\ ~held[i]
          /\ ~tx[i].open
          /\ citations = citationsAtCall[i]
          /\ criminal_records = recordsAtCall[i]

C5_Witness ==
  \E i \in Procs :
    /\ pc[i] = "threw"
    /\ thrown[i] = NotFoundError
    /\ citationData[i].citizen_id = 3
    /\ citations # {}

C13_FineFromPenaltyOnly ==
  \A i \in Procs :
    /\ \A r \in tx[i].citations :
          /\ r.fine_amount = calculatePenalty(previousCitations[i]).fine_amount
          /\ r.date = Now
    /\ (pc[i] \in {"release", "returned"} /\ thrown[i] = NoError) =>
          \A r \in CitationsWithId(result[i].insertId) :
             /\ r.fine_amount = calculatePenalty(previousCitations[i]).fine_amount
             /\ r.date = Now

C13_Witness ==
  \E i \in Procs :
    /\ pc[i] = "returned"
    /\ citationData[i].fine_amount = 999
    /\ \E r \in CitationsWithId(result[i].insertId) :
          r.fine_amount = 400 /\ r.date = Now

\* C14: with filings one at a time and citation deletes in between (no
\* update), a committed filing always gets an ordinal above every ordinal
\* given to an earlier filing of that citizen.
C14_OrdinalsNeverReset ==
  [][\A i \in Procs :
       (pc[i] = "commit" /\ pc'[i] = "release" /\ adminOps.updated = 0) =>
          penalty[i].citation_number > lastOrdinal[citationData[i].citizen_id]]_vars

\* C15: a citation update or delete leaves the criminal_records table as it
\* was and computes no penalty.
C15_AdminOpsKeepRecords ==
  [][(adminOps'.deleted # adminOps.deleted \/ adminOps'.updated # adminOps.updated) =>
        /\ criminal_records' = criminal_records
        /\ nextRecordId' = nextRecordId
        /\ penalty' = penalty
        /\ lastOrdinal' = lastOrdinal]_vars

\* A citizen keeps the automatic record after a citation was taken away.
C15_Witness ==
  \E c \in CitizenIds :
    /\ adminOps.deleted + adminOps.updated > 0
    /\ countRecordsByCitizen(c) >= 1
    /\ countCitationsByCitizenDB(c) < 3

\* C16: a filing made again with the same arguments after a failure inside
\* the transaction, with no citation of that citizen committed or deleted in
\* between, computes the same ordinal and the same decision.
C16_RetrySameOutcome ==
  \A i \in Procs :
    (/\ pc[i] \in {"getConnection", "begin", "insertCitation", "insertRecord",
                   "commit", "rollback", "release", "returned"}
     /\ lastFail.valid
     /\ lastFail.data = citationData[i]) =>
       /\ penalty[i].citation_number = lastFail.ordinal
       /\ penalty[i].creates_criminal_record = lastFail.decision

\* The retry of an escalating filing, about to commit.
C16_Witness ==
  \E i \in Procs :
    /\ pc[i] = "commit"
    /\ lastFail.valid
    /\ lastFail.data = citationData[i]
    /\ lastFail.decision
    /\ tx[i].criminal_records # {}

\* C18: an invocation issues the citation insert at most once and the
\* criminal-record insert at most once, and commits at most one row of each.
C18_AtMostOnce ==
  \A i \in Procs :
    /\ attempts[i].citation <= 1
    /\ attempts[i].record <= 1
    /\ Cardinality(tx[i].citations) <= 1
    /\ Cardinality(tx[i].criminal_records) <= 1
    /\ pc[i] = "returned" =>
          /\ Cardinality(NewCitations(i)) <= 1
          /\ Cardinality(NewRecords(i)) <= 1

\* Both inserts issued once, the filing failed, nothing was tried again.
C18_Witness ==
  \E i \in Procs :
    /\ pc[i] = "threw"
    /\ released[i] = 1
    /\ attempts[i].citation = 1
    /\ attempts[i].record = 1

\* C19: every committed citation row and criminal-record row references a
\* citizen that exists, whenever citizens are deleted.
C19_RowsReferenceCitizens ==
  /\ \A r \in citations : r.citizen_id \in citizens
  /\ \A r \in criminal_records : r.citizen_id \in citizens

\* The citizen was deleted after the existence check: the insert was refused.
C19_Witness ==
  \E i \in Procs :
    /\ pc[i] = "threw"
    /\ released[i] = 1
    /\ attempts[i].citation = 1
    /\ citationData[i].citizen_id \notin citizens
    /\ adminOps.citizens > 0

\* C20: the automatic criminal record has the filing citizen's id, location
\* 1, the fixed crime type, and a description holding the ordinal of the
\* filing and the submitted description.
C20_AutomaticRecordContent ==
  \A i \in Procs :
    (pc[i] = "returned" /\ result[i].criminal_record_created) =>
       /\ NewRecords(i) # {}
       /\ \A r \in NewRecords(i) :
             /\ r.citizen_id = citationData[i].citizen_id
             /\ r.location = 1
             /\ r.crime_type = "Acumulación de citaciones menores"
             /\ r.description[2] = PriorAtCall(i) + 1
             /\ r.description[4] = citationData[i].description

C20_Witness ==
  \E i \in Procs :
    /\ pc[i] = "returned"
    /\ PriorAtCall(i) = 2
    /\ \E r \in NewRecords(i) :
          r.description[2] = 3 /\ r.description[4] = "jaywalking"

\* C11: an invocation that acquired a connection has released it exactly
\* once when it returns or throws, whatever the exit path.
C11_ConnectionReleasedOnce ==
  \A i \in Procs :
    (pc[i] \in {"returned", "threw"} /\ acquired[i] >= 1) =>
       (released[i] = 1 /\ ~held[i])

\* C17: when a statement of the try block fails, the error the caller
\* receives is that storage error, after the rollback.
C17_OriginalErrorPropagated ==
  \A i \in Procs :
    (pc[i] = "threw" /\ released[i] = 1) =>
       (thrown[i] = StorageError /\ ~tx[i].open)

\* ------------------------------------------------- the penalty ladder
\* C6: calculatePenalty(2) returns citation_number 3, fine_amount 0,
\* civic_course_hours 0, civic_work_days 0, jail_days 8 and
\* creates_criminal_record true.
C6_ThirdCitationOutcome ==
  (calcOutcome = "returned" /\ calcArg = 2) =>
     /\ calcRes.citation_number = 3
     /\ calcRes.fine_amount = 0
     /\ calcRes.civic_course_hours = 0
     /\ calcRes.civic_work_days = 0
     /\ calcRes.jail_days = 8
     /\ calcRes.creates_criminal_record = TRUE

\* C7: calculatePenalty(0) is ordinal 1 with fine 400, 48 course hours, no
\* work days, no jail, no record; calculatePenalty(1) is ordinal 2 with fine
\* 400, 48 course hours, 2 work days, no jail, no record.
C7_FirstAndSecondOutcome ==
  /\ (calcOutcome = "returned" /\ calcArg = 0) =>
        /\ calcRes.citation_number = 1
        /\ calcRes.fine_amount = 400
        /\ calcRes.civic_course_hours = 48
        /\ calcRes.civic_work_days = 0
        /\ calcRes.jail_days = 0
        /\ calcRes.creates_criminal_record = FALSE
  /\ (calcOutcome = "returned" /\ calcArg = 1) =>
        /\ calcRes.citation_number = 2
        /\ calcRes.fine_amount = 400
        /\ calcRes.civic_course_hours = 48
        /\ calcRes.civic_work_days = 2
        /\ calcRes.jail_days = 0
        /\ calcRes.creates_criminal_record = FALSE

C7_Witness ==
  /\ calcOutcome = "returned" /\ calcArg = 1
  /\ prevOutcome = "returned" /\ prevArg = 0

\* C8: for every prior count p whose ordinal n = p + 1 exceeds 3 the outcome
\* has fine 0, no course, no work days, a criminal record and
\* 15 + 5 * (n - 3) jail days; one more citation adds exactly 5 days, and
\* calculatePenalty(5) is ordinal 6 with 30 days.
C8_EscalationFormula ==
  /\ (calcOutcome = "returned" /\ calcArg + 1 > 3) =>
        /\ calcRes.citation_number = calcArg + 1
        /\ calcRes.fine_amount = 0
        /\ calcRes.civic_course_hours = 0
        /\ calcRes.civic_work_days = 0
        /\ calcRes.creates_criminal_record = TRUE
        /\ calcRes.jail_days = 15 + 5 * ((calcArg + 1) - 3)
  /\ (calcOutcome = "returned" /\ calcArg = 5) =>
        (calcRes.citation_number = 6 /\ calcRes.jail_days = 30)
  /\ (calcOutcome = "returned" /\ prevOutcome = "returned"
        /\ prevArg + 1 > 3 /\ calcArg = prevArg + 1) =>
        calcRes.jail_days = prevRes.jail_days + 5

C8_Witness ==
  /\ calcOutcome = "returned" /\ calcArg = 5
  /\ prevOutcome = "returned" /\ prevArg = 4

\* C9: from ordinal 3 on, the next ordinal always carries strictly more jail
\* days, the step from ordinal 3 to ordinal 4 included.
C9_JailDaysMonotone ==
  (calcOutcome = "returned" /\ prevOutcome = "returned"
     /\ prevArg >= 2 /\ calcArg = prevArg + 1) =>
     calcRes.jail_days > prevRes.jail_days

C9_Witness ==
  /\ calcOutcome = "returned" /\ prevOutcome = "returned"
  /\ prevArg = 2 /\ calcArg = 3
  /\ prevRes.jail_days = 8

\* C10: a negative prior-citation count is rejected: the call fails instead
\* of returning a penalty outcome.
C10_NegativeCountRejected ==
  (calcOutcome # "none" /\ calcArg < 0) => calcOutcome = "threw"

AnsweredByHandler == hpc = "responded" /\ response.by = "createCitation"
AnsweredWithSuccess == AnsweredByHandler /\ response.body.status = "success"

\* The fields of the outcome of calculatePenalty.
PenaltyOutcomeFields == DOMAIN calculatePenalty(0)

\* C22: the success response of createCitation has a penalty_details object
\* with every field of the outcome of calculatePenalty (citation_number,
\* fine_amount, civic_course_hours, civic_work_days, jail_days,
\* creates_criminal_record, penalty_description), and the flag
\* automatic_actions.criminal_record_created.
C22_PenaltyDetailsComplete ==
  AnsweredWithSuccess =>
    /\ "creates_criminal_record" \in PenaltyOutcomeFields
    /\ \A f \in PenaltyOutcomeFields :
          /\ f \in DOMAIN response.body.data.penalty_details
          /\ response.body.data.penalty_details[f] = handler.penalty[f]
    /\ "criminal_record_created" \in DOMAIN response.body.data.automatic_actions

\* C23: the createCitation handler answers 4xx exactly when createCitationDB
\* failed with its citizen-does-not-exist error, and 500 for every other
\* failure: of its own count, of createCitationDB (storage or rollback
\* error) or of the fetch after the commit.
C23_StatusByFailure ==
  AnsweredByHandler =>
    LET notFound == \E i \in Procs : pc[i] = "threw" /\ thrown[i] = NotFoundError
        otherThrow == \E i \in Procs : pc[i] = "threw" /\ thrown[i] # NotFoundError
        notCalled == \A i \in Procs : pc[i] = "idle"
    IN /\ response.status \in {201, 202, 400, 500}
       /\ (response.status \in 400..499) <=> notFound
       /\ notFound => req.citizenId \notin citizens
       /\ otherThrow => response.status = 500
       /\ notCalled => response.status = 500
       /\ (response.status = 500 /\ ~otherThrow /\ ~notCalled) =>
             \E i \in Procs : pc[i] = "returned"
       /\ response.status \in {201, 202} =>
             \E i \in Procs :
                /\ pc[i] = "returned"
                /\ response.body.data.citation.id = result[i].insertId

\* The citizen was deleted after the validation: the handler answers 400.
C23_Witness ==
  /\ AnsweredByHandler
  /\ response.status = 400
  /\ \E i \in Procs : pc[i] = "threw" /\ thrown[i] = NotFoundError
  /\ adminOps.citizens = 1

\* The token of the request in service passes authenticateToken and
\* authorizeRole(['Admin', 'PoliceOfficer']).
AuthorisedToFile ==
  /\ req.route = CreateRoute
  /\ req.token.present
  /\ req.token.valid
  /\ req.token.role \in {"Admin", "PoliceOfficer"}

\* C24: on POST /api/citizens/:citizenId/citations the handler, and so any
\* write of a citation or criminal record, is reached only with a valid
\* token whose role is Admin or PoliceOfficer; a missing or invalid token
\* (or one without role) is answered 401 and any other role 403, and such a
\* request writes nothing.
C24_OnlyAuthorisedRolesFile ==
  /\ [](/\ (req.route = CreateRoute
              /\ hpc \in {"sanitizeInput", "validation", "handleValidationErrors",
                          "count", "createCitationDB"}) => AuthorisedToFile
        /\ (\E i \in Procs : pc[i] \notin {"idle", "returned", "threw"})
              => AuthorisedToFile
        /\ (hpc = "responded" /\ req.route = CreateRoute) =>
              /\ (~req.token.present \/ ~req.token.valid \/ req.token.role = NoRole)
                    <=> response.status = 401
              /\ (req.token.present /\ req.token.valid
                    /\ req.token.role \in Roles \ {"Admin", "PoliceOfficer"})
                    <=> response.status = 403
              /\ response.by \in {"createCitation", "handleValidationErrors"}
                    => AuthorisedToFile)
  /\ [][(\/ tx' # tx
         \/ nextCitationId' # nextCitationId
         \/ nextRecordId' # nextRecordId
         \/ (citations' # citations /\ adminOps' = adminOps)
         \/ criminal_records' # criminal_records) => AuthorisedToFile]_vars

\* A commander's request to file was refused with 403 before any
\* invocation of createCitationDB.
C24_Witness ==
  /\ hpc = "responded"
  /\ req.route = CreateRoute
  /\ req.token.valid
  /\ req.token.role = "Commander"
  /\ response.status = 403
  /\ response.by = "authorizeRole"
  /\ citations = LoadedCitations
  /\ \A i \in Procs : pc[i] = "idle"

\* C27: a successful filing is answered 202 exactly when a criminal record
\* was created in that call and 201 otherwise, and the warning of
\* automatic_actions is non-null exactly in the 202 case.
C27_AcceptedIffRecordCreated ==
  AnsweredWithSuccess =>
    \E i \in Procs :
       /\ pc[i] = "returned"
       /\ response.status \in {201, 202}
       /\ response.status = 202 <=> NewRecords(i) # {}
       /\ response.status = 201 <=> NewRecords(i) = {}
       /\ response.body.data.automatic_actions.warning # Null
            <=> response.status = 202

C27_Witness ==
  /\ AnsweredWithSuccess
  /\ response.status = 202
  /\ response.body.data.automatic_actions.warning # Null
  /\ \E i \in Procs : Cardinality(NewRecords(i)) = 1

\* C29: the penalty_details of a successful response equal the penalty
\* createCitationDB applied (result.penalty), also when a filing or delete
\* for the citizen commits between the two counts; jail_days is positive
\* whenever criminal_record_created is true.
C29_ReportedPenaltyIsApplied ==
  AnsweredWithSuccess =>
    \E i \in Procs :
       /\ pc[i] = "returned"
       /\ \A f \in DOMAIN response.body.data.penalty_details :
             response.body.data.penalty_details[f] = result[i].penalty[f]
       /\ response.body.data.automatic_actions.criminal_record_created =>
             response.body.data.penalty_details.jail_days > 0

\* The penalty summary was answered.
SummaryAnswered ==
  /\ hpc = "responded"
  /\ response.by = "getCitizenPenaltySummary"
  /\ response.status = 200

\* C30: in the penalty summary next_penalty is calculatePenalty of
\* total_citations, and the approaching_criminal_record warning is non-null
\* exactly when next_penalty.creates_criminal_record is true.
C30_SummaryWarningMatchesPenalty ==
  SummaryAnswered =>
    LET data == response.body.data
    IN /\ data.current_status.total_citations >= 0
       /\ data.next_citation_penalty =
             calculatePenalty(data.current_status.total_citations)
       /\ data.next_citation_penalty.citation_number =
             data.current_status.total_citations + 1
       /\ data.warnings.approaching_criminal_record # Null
            <=> data.next_citation_penalty.creates_criminal_record

\* The summary of a citizen with two citations, asked after a filing.
C30_Witness ==
  /\ SummaryAnswered
  /\ response.body.data.current_status.total_citations = 2
  /\ response.body.data.warnings.approaching_criminal_record # Null
  /\ response.body.data.next_citation_penalty.jail_days = 8
  /\ calls = 1

\* ------------------------------------------- order, termination, totals
\* C25: the steps of one invocation come in a fixed order, each only after
\* the one before it succeeded: existence check, count, (connection and)
\* begin, citation insert, criminal-record insert only when the penalty
\* creates a record, commit; no insert is issued before the check and the
\* count are done, and no commit after an insert failed.
C25_StepsInOrder ==
  [][\A i \in Procs :
       /\ (pc'[i] = "count" /\ pc[i] # "count") =>
             (pc[i] = "check" /\ checkCitizenExistsDB(citationData[i].citizen_id))
       /\ (pc'[i] = "getConnection" /\ pc[i] # "getConnection") =>
             (pc[i] = "count"
                /\ penalty'[i] = calculatePenalty(previousCitations'[i]))
       /\ (pc'[i] = "begin" /\ pc[i] # "begin") => pc[i] = "getConnection"
       /\ (pc'[i] = "insertCitation" /\ pc[i] # "insertCitation") =>
             (pc[i] = "begin" /\ tx'[i].open)
       /\ attempts'[i].citation > attempts[i].citation =>
             (pc[i] = "insertCitation" /\ tx[i].open /\ attempts[i] = NoAttempts)
       /\ (pc'[i] = "insertRecord" /\ pc[i] # "insertRecord") =>
             /\ pc[i] = "insertCitation"
             /\ penalty[i].creates_criminal_record
             /\ Cardinality(tx'[i].citations) = 1
       /\ attempts'[i].record > attempts[i].record =>
             /\ pc[i] = "insertRecord"
             /\ penalty[i].creates_criminal_record
             /\ attempts[i].citation = 1
             /\ Cardinality(tx[i].citations) = 1
       /\ (pc'[i] = "commit" /\ pc[i] # "commit") =>
             /\ thrown[i] = NoError
             /\ Cardinality(tx'[i].citations) = 1
             /\ IF penalty[i].creates_criminal_record
                  THEN pc[i] = "insertRecord"
                         /\ Cardinality(tx'[i].criminal_records) = 1
                  ELSE pc[i] = "insertCitation"
                         /\ tx'[i].criminal_records = {}
       /\ (pc[i] = "rollback" /\ pc'[i] # "rollback") => pc'[i] = "release"
       /\ (pc[i] = "release" /\ thrown[i] # NoError /\ pc'[i] # "release") =>
             pc'[i] = "threw"]_vars

\* An escalating filing has gone through every step.
C25_Witness ==
  \E i \in Procs :
    /\ pc[i] = "returned"
    /\ attempts[i].citation = 1
    /\ attempts[i].record = 1
    /\ result[i].criminal_record_created

\* How an invocation that is over has ended.
EndedNotFound(i) == pc[i] = "threw" /\ thrown[i] = NotFoundError
EndedInFailure(i) ==
  pc[i] = "threw" /\ thrown[i] \in {StorageError, RollbackError}
EndedCommitted(i) ==
  /\ pc[i] = "returned"
  /\ thrown[i] = NoError
  /\ result[i].insertId # 0
  /\ DOMAIN result[i].penalty = PenaltyOutcomeFields
  /\ result[i].penalty = calculatePenalty(previousCitations[i])
  /\ result[i].criminal_record_created = result[i].penalty.creates_criminal_record

C28_RecordsFollowCitations ==
  \A c \in CitizenIds :
    Cardinality(RowsOf(criminal_records, c)) =
      (IF Cardinality(RowsOf(citations, c)) > 2
         THEN Cardinality(RowsOf(citations, c)) - 2 ELSE 0)

\* A citizen with four citations and two records, after a failed filing.
C28_Witness ==
  \E c \in CitizenIds :
    /\ Cardinality(RowsOf(citations, c)) = 4
    /\ Cardinality(RowsOf(criminal_records, c)) = 2
    /\ failures >= 1
    /\ \A i \in Procs : pc[i] = "idle"
====
